---- MODULE Spec2Model ----
(***************************************************************************)
(* Model of dashboard/app.py: the mod registry (settings store + mirrored  *)
(* .env file), the world manager (saves directory + SERVER_NAME) and the   *)
(* container-engine calls of the Project Zomboid server dashboard.         *)
(*                                                                         *)
(* Text is modelled as a sequence of characters; a character is a one      *)
(* element string, and a key name such as "MODS" stands for the run of     *)
(* letters that spells it, so that join/split/strip and the parsing of the *)
(* .env lines are computed as the code computes them.  A request handler   *)
(* runs as a sequence of steps, one per access to the store, to the .env   *)
(* file or to the saves directory, and handlers of different operators     *)
(* interleave between steps (Flask serves requests on threads).            *)
(***************************************************************************)
EXTENDS Integers, Sequences, FiniteSets, TLC

VARIABLES store, file, dirs, req, nreq, lastWrite, created, calls

vars == <<store, file, dirs, req, nreq, lastWrite, created, calls>>

(***************************************************************************)
(* Bounds                                                                  *)
(***************************************************************************)
\* requests started in one behaviour
MaxReq == 2

Operators == {"op1", "op2"}

SP == " "
SEMI == ";"
EQ == "="
HASH == "#"

K_W == <<"WORKSHOP_ITEMS">>
K_M == <<"MODS">>
K_S == <<"SERVER_NAME">>
ServerTest == <<"servertest">>

(***************************************************************************)
(* Text                                                                    *)
(***************************************************************************)
Range(s) == {s[i] : i \in 1..Len(s)}

RECURSIVE lstrip(_)
lstrip(s) == IF s # <<>> /\ Head(s) = SP THEN lstrip(Tail(s)) ELSE s

RECURSIVE rstrip(_)
rstrip(s) == IF s # <<>> /\ s[Len(s)] = SP THEN rstrip(SubSeq(s, 1, Len(s) - 1)) ELSE s

strip(s) == rstrip(lstrip(s))

Contains(s, c) == \E i \in 1..Len(s) : s[i] = c

IndexOf(s, c) == CHOOSE i \in 1..Len(s) : s[i] = c /\ \A j \in 1..(i - 1) : s[j] # c

RECURSIVE split(_, _)
split(s, sep) ==
    IF ~Contains(s, sep) THEN <<s>>
    ELSE LET i == IndexOf(s, sep)
         IN <<SubSeq(s, 1, i - 1)>> \o split(SubSeq(s, i + 1, Len(s)), sep)

RECURSIVE join(_, _)
join(l, sep) ==
    IF l = <<>> THEN <<>>
    ELSE IF Len(l) = 1 THEN Head(l)
    ELSE Head(l) \o <<sep>> \o join(Tail(l), sep)

MapStrip(l) == [i \in 1..Len(l) |-> strip(l[i])]

NonEmpty(t) == t # <<>>

\* as ParseList, keeping the empty tokens
ParseListKeepEmpty(text) == MapStrip(split(text, SEMI))

\* [w.strip() for w in text.split(';') if w.strip()]
ParseList(text) == SelectSeq(MapStrip(split(text, SEMI)), NonEmpty)

(***************************************************************************)
(* Ordered dictionaries (Python dict): a sequence of <<key, value>> pairs  *)
(***************************************************************************)
DictHas(d, k) == \E i \in 1..Len(d) : d[i][1] = k

DictGet(d, k, default) ==
    IF DictHas(d, k) THEN d[CHOOSE i \in 1..Len(d) : d[i][1] = k][2] ELSE default

DictSet(d, k, v) ==
    IF DictHas(d, k)
    THEN [i \in 1..Len(d) |-> IF d[i][1] = k THEN <<k, v>> ELSE d[i]]
    ELSE Append(d, <<k, v>>)

(***************************************************************************)
(* The .env file: a sequence of lines, each a text                         *)
(***************************************************************************)
IsKeyLine(line) ==
    LET s == strip(line) IN s # <<>> /\ Head(s) # HASH /\ Contains(s, EQ)

LineKey(line) == LET s == strip(line) IN strip(SubSeq(s, 1, IndexOf(s, EQ) - 1))

LineValue(line) == LET s == strip(line) IN strip(SubSeq(s, IndexOf(s, EQ) + 1, Len(s)))

RECURSIVE read_env_lines(_, _)
read_env_lines(lines, env_vars) ==
    IF lines = <<>> THEN env_vars
    ELSE read_env_lines(Tail(lines),
            IF IsKeyLine(Head(lines))
            THEN DictSet(env_vars, LineKey(Head(lines)), LineValue(Head(lines)))
            ELSE env_vars)

read_env_file(f) == read_env_lines(f, <<>>)

IsCommentOrBlank(line) == LET s == strip(line) IN s = <<>> \/ Head(s) = HASH

RECURSIVE rewrite_lines(_, _)
rewrite_lines(lines, env_vars) ==
    IF lines = <<>> THEN <<>>
    ELSE LET line == Head(lines)
             rest == rewrite_lines(Tail(lines), env_vars)
         IN IF IsCommentOrBlank(line) THEN <<line>> \o rest
            ELSE IF IsKeyLine(line)
                 THEN IF DictHas(env_vars, LineKey(line))
                      THEN <<LineKey(line) \o <<EQ>> \o DictGet(env_vars, LineKey(line), <<>>)>> \o rest
                      ELSE <<line>> \o rest
                 ELSE rest

existing_keys(lines) == {LineKey(lines[i]) : i \in {j \in 1..Len(lines) : IsKeyLine(lines[j])}}

RECURSIVE new_key_lines(_, _)
new_key_lines(env_vars, keys) ==
    IF env_vars = <<>> THEN <<>>
    ELSE (IF Head(env_vars)[1] \notin keys
          THEN <<Head(env_vars)[1] \o <<EQ>> \o Head(env_vars)[2]>>
          ELSE <<>>) \o new_key_lines(Tail(env_vars), keys)

\* as write_env_file, writing the dictionary alone
write_env_file_dict_only(f, env_vars) == new_key_lines(env_vars, {})

write_env_file(f, env_vars) ==
    rewrite_lines(f, env_vars) \o new_key_lines(env_vars, existing_keys(f))

(***************************************************************************)
(* Mod registry: what the handlers compute between two accesses            *)
(***************************************************************************)
RECURSIVE RemoveFirst(_, _)
RemoveFirst(l, x) ==
    IF l = <<>> THEN <<>>
    ELSE IF Head(l) = x THEN Tail(l) ELSE <<Head(l)>> \o RemoveFirst(Tail(l), x)

AppendIfAbsent(l, x) == IF x \in Range(l) THEN l ELSE Append(l, x)

RECURSIVE AppendAllAbsent(_, _)
AppendAllAbsent(l, items) ==
    IF items = <<>> THEN l
    ELSE AppendAllAbsent(AppendIfAbsent(l, Head(items)), Tail(items))

\* api_add_mod, between get_mods and save_mods
add_mod(lists, workshop_id, mod_id) ==
    [w |-> AppendIfAbsent(lists.w, workshop_id),
     m |-> IF mod_id # <<>> THEN AppendIfAbsent(lists.m, mod_id) ELSE lists.m]

\* api_remove_mod, between get_mods and save_mods
remove_mod(lists, workshop_id, mod_id) ==
    [w |-> IF workshop_id # <<>> /\ workshop_id \in Range(lists.w)
           THEN RemoveFirst(lists.w, workshop_id) ELSE lists.w,
     m |-> IF mod_id # <<>> /\ mod_id \in Range(lists.m)
           THEN RemoveFirst(lists.m, mod_id) ELSE lists.m]

\* api_import_collection, between get_mods and save_mods
import_items(lists, item_ids) == [w |-> AppendAllAbsent(lists.w, item_ids), m |-> lists.m]

Apply(op, arg, lists) ==
    CASE op = "addMod" -> add_mod(lists, arg.w, arg.m)
      [] op = "removeMod" -> remove_mod(lists, arg.w, arg.m)
      [] op = "importCollection" -> import_items(lists, arg.items)
      [] OTHER -> lists

\* the settings table: a function from the keys present to their text
StoreHas(k) == k \in DOMAIN store

\* as StoreSet, with INSERT OR IGNORE
StoreSetIgnore(st, w, m) ==
    [k \in DOMAIN st \cup {K_W, K_M} |->
        IF k \in DOMAIN st THEN st[k] ELSE IF k = K_W THEN w ELSE m]

\* INSERT OR REPLACE of both keys, then commit
StoreSet(st, w, m) == [k \in DOMAIN st \cup {K_W, K_M} |-> IF k = K_W THEN w ELSE IF k = K_M THEN m ELSE st[k]]

(***************************************************************************)
(* World names                                                             *)
(***************************************************************************)
NameChars == {"a", "b", "_", "-", "servertest", "T1", "T2"}

\* re.match(r'^[a-zA-Z0-9_-]+$', name)
ValidName(name) == name # <<>> /\ \A i \in 1..Len(name) : name[i] \in NameChars

\* get_current_world / env.get('SERVER_NAME', 'servertest')
get_current_world(f) == DictGet(read_env_file(f), K_S, ServerTest)

IsSuffix(t, s) == Len(t) <= Len(s) /\ SubSeq(s, Len(s) - Len(t) + 1, Len(s)) = t

HasSubSeq(s, t) == \E i \in 1..(Len(s) - Len(t) + 1) : SubSeq(s, i, i + Len(t) - 1) = t

\* "T1", "T2" stand for a text dd-mm-yy_HH-MM-SS
TimestampTexts == {"T1", "T2"}

\* '_backup' in name.lower(), or re.search(r'_\d{2}-\d{2}-\d{2}_\d{2}-\d{2}-\d{2}$', name)
is_backup_folder(name) ==
    \/ HasSubSeq(name, <<"_", "b", "a", "c", "k", "u", "p">>)
    \/ \E t \in TimestampTexts : IsSuffix(<<"_", t>>, name)

\* the directories of SAVES_DIR, split into worlds and backups (their order, by
\* modification time, is not modelled)
get_available_worlds(d) ==
    [worlds |-> {n \in DOMAIN d : ~is_backup_folder(n)},
     backups |-> {n \in DOMAIN d : is_backup_folder(n)}]

\* as all_names, comparing the name with the entries and not with their names
all_names_of_entries(d) == {}

\* [w['name'] for w in worlds] + [b['name'] for b in backups]
all_names(d) == get_available_worlds(d).worlds \cup get_available_worlds(d).backups

(***************************************************************************)
(* Requests                                                                *)
(***************************************************************************)
None == <<>>

\* pc: where the handler is; op, arg: the request; rd: the lists get_mods returned;
\* cur: the lists the handler holds; env: the dictionary read from the .env file;
\* res: the response.  again and stale record
\* history: the handler began with no other request in flight and read the store
\* as the same request had just written it (createWorld: the same name had been
\* created before); another handler wrote the store between this handler's read
\* of it and its own save.
Idle == [pc |-> "idle", op |-> "none", arg |-> None, rd |-> None, cur |-> None,
         env |-> None, res |-> None, again |-> FALSE, stale |-> FALSE]

Free(p) == req[p].pc \in {"idle", "done"}

\* the handler returns: its dictionary is gone, its lists are kept as the history
\* of the request
Fail(r, why) == [r EXCEPT !.pc = "done", !.env = None, !.res = [ok |-> FALSE, why |-> why]]

Ok(r) == [r EXCEPT !.pc = "done", !.env = None, !.res = [ok |-> TRUE, why |-> "ok"]]

\* the request whose write the store holds
NoWrite == [op |-> "none", by |-> "none", arg |-> None]

ModOps == {"saveMods", "addMod", "removeMod", "importCollection"}

\* request bodies as the clients send them
SaveBodies == {[w |-> <<>>, m |-> <<>>],
               [w |-> <<<<"b">>, <<"a">>>>, m |-> <<<<"n">>, <<"m">>>>],
               [w |-> <<<<"a">>, <<"a">>>>, m |-> <<>>]}
AddBodies == {[w |-> <<>>, m |-> <<"m">>],
              [w |-> <<"a", SP>>, m |-> <<"m">>],
              [w |-> <<"b">>, m |-> <<>>],
              [w |-> <<"a", SEMI, "b">>, m |-> <<>>]}
RemoveBodies == {[w |-> <<"a">>, m |-> <<>>]}
CollectionIds == {<<>>, <<"c">>}
\* what the workshop API may answer: the children of the collection
CollectionAnswers == {<<>>, <<<<"b">>, <<"a">>, <<"b">>>>}
SwitchNames == {<<>>, <<SP, "b">>, <<"a", "!">>}
WorldNames == {<<>>, <<"a">>, <<SP, "b">>, <<"a", "!">>}

\* a client sends a request; the two operators are interchangeable, and op2 is
\* the one whose request arrives while op1 has one in flight
Start(p, r) ==
    /\ Free(p)
    /\ p = "op2" => ~Free("op1")
    /\ nreq < MaxReq
    /\ nreq' = nreq + 1
    /\ req' = [req EXCEPT ![p] = r]

\* api_get_mods
BeginGetMods(p) ==
    /\ Start(p, [Idle EXCEPT !.pc = "select", !.op = "getMods"])
    /\ UNCHANGED <<store, file, dirs, lastWrite, created, calls>>

\* api_save_mods: the lists of the request go to save_mods as they are
BeginSaveMods(p) ==
    /\ \E data \in SaveBodies :
          Start(p, [Idle EXCEPT !.pc = "commit", !.op = "saveMods",
                                !.arg = data, !.cur = data])
    /\ UNCHANGED <<store, file, dirs, lastWrite, created, calls>>

\* api_add_mod up to get_mods
BeginAddMod(p) ==
    /\ \E data \in AddBodies :
          LET r == [Idle EXCEPT !.op = "addMod",
                                !.arg = [w |-> strip(data.w), m |-> strip(data.m)]]
          IN Start(p, IF strip(data.w) = <<>> THEN Fail(r, "Required")
                      ELSE [r EXCEPT !.pc = "select"])
    /\ UNCHANGED <<store, file, dirs, lastWrite, created, calls>>

\* api_remove_mod up to get_mods
BeginRemoveMod(p) ==
    /\ \E data \in RemoveBodies :
          Start(p, [Idle EXCEPT !.pc = "select", !.op = "removeMod",
                                !.arg = [w |-> strip(data.w), m |-> strip(data.m)]])
    /\ UNCHANGED <<store, file, dirs, lastWrite, created, calls>>

\* api_import_collection up to get_mods: the fetch of the collection
BeginImportCollection(p) ==
    /\ \E c \in CollectionIds, fetched \in BOOLEAN, items \in CollectionAnswers :
          LET r == [Idle EXCEPT !.op = "importCollection",
                                !.arg = [id |-> strip(c), items |-> items]]
          IN Start(p, IF strip(c) = <<>> THEN Fail(r, "Required")
                      ELSE IF ~fetched THEN Fail(r, "FetchFailed")
                      ELSE IF items = <<>> THEN Fail(r, "EmptyCollection")
                      ELSE [r EXCEPT !.pc = "select"])
    /\ UNCHANGED <<store, file, dirs, lastWrite, created, calls>>

\* get_mods has its lists: the handler goes on to save_mods, or answers
GotMods(r, text) ==
    LET lists == [w |-> ParseList(text.w), m |-> ParseList(text.m)]
    IN IF r.op = "getMods"
       THEN [r EXCEPT !.pc = "done", !.rd = lists, !.res = [ok |-> TRUE, why |-> "ok"]]
       ELSE [r EXCEPT !.pc = "commit", !.rd = lists, !.cur = Apply(r.op, r.arg, lists)]

\* get_mods: the two SELECTs
Select(p) ==
    /\ req[p].pc = "select"
    /\ LET r == [req[p] EXCEPT !.again = /\ lastWrite.op = req[p].op
                                          /\ lastWrite.arg = req[p].arg
                                          /\ \A q \in Operators \ {p} : Free(q)]
       IN req' = [req EXCEPT ![p] =
            IF StoreHas(K_W) \/ StoreHas(K_M)
            THEN GotMods(r, [w |-> IF StoreHas(K_W) THEN store[K_W] ELSE <<>>,
                             m |-> IF StoreHas(K_M) THEN store[K_M] ELSE <<>>])
            ELSE [r EXCEPT !.pc = "mig_read"]]
    /\ UNCHANGED <<store, file, dirs, nreq, lastWrite, created, calls>>

\* get_mods: the fall back to the .env file
MigRead(p) ==
    /\ req[p].pc = "mig_read"
    /\ LET env == read_env_file(file)
           text == [w |-> DictGet(env, K_W, <<>>), m |-> DictGet(env, K_M, <<>>)]
       IN req' = [req EXCEPT ![p] =
            IF text.w # <<>> \/ text.m # <<>>
            THEN [req[p] EXCEPT !.pc = "mig_write", !.env = text]
            ELSE GotMods(req[p], text)]
    /\ UNCHANGED <<store, file, dirs, nreq, lastWrite, created, calls>>

MarkStale(rq, p) ==
    [q \in Operators |->
        IF q # p /\ rq[q].pc \in {"mig_read", "mig_write", "commit"}
        THEN [rq[q] EXCEPT !.stale = TRUE] ELSE rq[q]]

\* get_mods: the migration into the store
MigWrite(p) ==
    /\ req[p].pc = "mig_write"
    /\ store' = StoreSet(store, req[p].env.w, req[p].env.m)
    /\ lastWrite' = [NoWrite EXCEPT !.op = "migrate", !.by = p]
    /\ req' = MarkStale([req EXCEPT ![p] = GotMods([req[p] EXCEPT !.env = None], req[p].env)], p)
    /\ UNCHANGED <<file, dirs, nreq, created, calls>>

\* save_mods: join, the two INSERT OR REPLACE and the commit
Commit(p) ==
    /\ req[p].pc = "commit"
    /\ LET workshop_str == join(req[p].cur.w, SEMI)
           mods_str == join(req[p].cur.m, SEMI)
       IN /\ store' = StoreSet(store, workshop_str, mods_str)
          /\ lastWrite' = [op |-> req[p].op, by |-> p, arg |-> req[p].arg]
          /\ req' = MarkStale([req EXCEPT ![p] = [req[p] EXCEPT !.pc = "read_env"]], p)
    /\ UNCHANGED <<file, dirs, nreq, created, calls>>

\* the keys the handler sets in the dictionary read_env_file returned
Updated(r, env) ==
    IF r.op \in ModOps
    THEN DictSet(DictSet(env, K_W, join(r.cur.w, SEMI)), K_M, join(r.cur.m, SEMI))
    ELSE DictSet(env, K_S, r.arg.name)

\* read_env_file and the assignments to env[...]
ReadEnv(p) ==
    /\ req[p].pc = "read_env"
    /\ req' = [req EXCEPT ![p] = [req[p] EXCEPT !.pc = "write_env",
                                                !.env = Updated(req[p], read_env_file(file))]]
    /\ UNCHANGED <<store, file, dirs, nreq, lastWrite, created, calls>>

\* write_env_file
WriteEnv(p) ==
    /\ req[p].pc = "write_env"
    /\ file' = write_env_file(file, req[p].env)
    /\ req' = [req EXCEPT ![p] = Ok(req[p])]
    /\ created' = IF req[p].op = "createWorld" THEN created \cup {req[p].arg.name} ELSE created
    /\ UNCHANGED <<store, dirs, nreq, lastWrite, calls>>

\* api_switch_world up to read_env_file
BeginSwitchWorld(p) ==
    /\ \E n \in SwitchNames :
          LET world_name == strip(n)
              r == [Idle EXCEPT !.op = "switchWorld", !.arg = [name |-> world_name]]
          IN Start(p, IF world_name = <<>> THEN Fail(r, "Required")
                      ELSE IF ~ValidName(world_name) THEN Fail(r, "InvalidName")
                      ELSE [r EXCEPT !.pc = "read_env"])
    /\ UNCHANGED <<store, file, dirs, lastWrite, created, calls>>

(***************************************************************************)
(* The mod registry                                                        *)
(***************************************************************************)
C == <<HASH, "c">>
KV(k, v) == k \o <<EQ>> \o v

File1 == <<C, KV(K_S, <<"a">>), <<>>, KV(<<"OTHER">>, <<"x">>)>>
File2 == <<KV(K_W, <<"a", SP, SEMI, "b">>), C, <<SP>> \o K_M \o <<SP, EQ, SP, "m">>>>
File3 == <<>>
File4 == <<KV(K_M, <<"m">>), <<SP, HASH>>, KV(K_S, <<"b">>), KV(K_W, <<>>)>>
File5 == <<KV(K_W, <<>>)>>

NoStore == [k \in {} |-> <<>>]

\* a fresh install, an install with mods in its .env, no .env, a dashboard
\* restarted, a fresh install whose .env names WORKSHOP_ITEMS with no value
InitConfigs == {<<NoStore, File1>>, <<NoStore, File2>>, <<NoStore, File3>>,
                <<StoreSet(NoStore, <<"b">>, <<>>), File4>>, <<NoStore, File5>>}

NoDirs == [n \in {} |-> "new"]

\* a request to the process controller: the endpoint, the command it waits for,
\* the seconds it has waited, the response
NoCall == [pc |-> "idle", api |-> "none", cmd |-> "none", t |-> 0, res |-> "none"]

NoCalls == [p \in Operators |-> NoCall]

Init ==
    /\ \E c \in InitConfigs : store = c[1] /\ file = c[2]
    /\ dirs = NoDirs
    /\ req = [p \in Operators |-> Idle]
    /\ nreq = 0
    /\ lastWrite = NoWrite
    /\ created = {}
    /\ calls = NoCalls

Next ==
    \E p \in Operators :
        \/ BeginGetMods(p)
        \/ BeginSaveMods(p)
        \/ BeginAddMod(p)
        \/ BeginRemoveMod(p)
        \/ BeginImportCollection(p)
        \/ BeginSwitchWorld(p)
        \/ Select(p)
        \/ MigRead(p)
        \/ MigWrite(p)
        \/ Commit(p)
        \/ ReadEnv(p)
        \/ WriteEnv(p)

Spec == Init /\ [][Next]_vars

(***************************************************************************)
(* Properties of the mod registry                                          *)
(***************************************************************************)
NoDup(l) == \A i, j \in 1..Len(l) : i # j => l[i] # l[j]

ValidId(x) == x # <<>> /\ strip(x) = x /\ ~Contains(x, SEMI)

ValidModList(L) ==
    /\ \A i \in 1..Len(L.w) : ValidId(L.w[i])
    /\ \A i \in 1..Len(L.m) : ValidId(L.m[i])
    /\ NoDup(L.w)
    /\ NoDup(L.m)

StoredLists == [w |-> ParseList(store[K_W]), m |-> ParseList(store[K_M])]

FileText(f, k) == DictGet(read_env_file(f), k, <<>>)

\* C1: a getMods that reads the store while it holds what saveMods(L) wrote, L a
\* valid mod list, answers exactly L (both sequences, in order), whatever the store
\* and the .env file held before and whatever the file holds now.
C1_SaveThenGet ==
    [][\A p \in Operators :
          (/\ req[p].op = "getMods" /\ req[p].pc = "select" /\ req'[p].pc # "select"
           /\ lastWrite.op = "saveMods" /\ ValidModList(lastWrite.arg))
          => (/\ req'[p].pc = "done" /\ req'[p].res.ok
              /\ req'[p].rd = lastWrite.arg)]_vars

C1_Witness ==
    \E p \in Operators :
        /\ req[p].op = "getMods" /\ req[p].pc = "done"
        /\ lastWrite.op = "saveMods" /\ ValidModList(lastWrite.arg)
        /\ req[p].rd = lastWrite.arg
        /\ req[p].rd.w = <<<<"b">>, <<"a">>>> /\ req[p].rd.m = <<<<"n">>, <<"m">>>>

\* C2: neither stored sequence ever holds a duplicate entry.
C2_NoDuplicates ==
    (StoreHas(K_W) /\ StoreHas(K_M)) => (NoDup(StoredLists.w) /\ NoDup(StoredLists.m))

\* C3: when no request is in progress, the store holds what a mod-list mutation
\* wrote and each operator's last request was a mod-list mutation, the .env
\* file's WORKSHOP_ITEMS and MODS equal the store's.
C3_FileMirrorsStore ==
    ((\A p \in Operators : Free(p) /\ req[p].op \in ModOps) /\ lastWrite.op \in ModOps)
    => (FileText(file, K_W) = store[K_W] /\ FileText(file, K_M) = store[K_M])

\* C4: two addMod calls with different workshop ids, each reading the list before
\* the other saves, both answer success, and the store then holds the list of the
\* later save, which lacks the id of the earlier one (when that id was not already
\* in the list the later call read).
C4_LostUpdate ==
    \A p, q \in Operators :
        (/\ p # q
         /\ req[p].op = "addMod" /\ req[p].pc = "done" /\ req[p].res.why # "Required"
         /\ req[q].op = "addMod" /\ req[q].pc = "done" /\ req[q].res.why # "Required"
         /\ req[p].arg.w # req[q].arg.w
         /\ lastWrite.by = q /\ req[q].stale
         /\ req[p].arg.w \notin Range(req[q].rd.w))
        => (/\ req[p].res.ok /\ req[q].res.ok
            /\ store[K_W] = join(req[q].cur.w, SEMI)
            /\ store[K_M] = join(req[q].cur.m, SEMI)
            /\ req[p].arg.w \notin Range(req[q].cur.w)
            /\ ValidId(req[q].arg.w) => req[p].arg.w \notin Range(StoredLists.w))

C4_Witness ==
    \E p, q \in Operators :
        /\ p # q
        /\ req[p].op = "addMod" /\ req[p].pc = "done" /\ req[p].res.ok
        /\ req[q].op = "addMod" /\ req[q].pc = "done" /\ req[q].res.ok
        /\ req[p].arg.w = <<"a">> /\ req[q].arg.w = <<"b">>
        /\ lastWrite.by = q /\ req[q].stale
        /\ <<"a">> \notin Range(req[q].rd.w)
        /\ <<"a">> \in Range(req[p].cur.w)
        /\ <<"a">> \notin Range(StoredLists.w)

\* C7: a rewrite of the .env file keeps every comment and blank line in place,
\* keeps every key line at its position under its key, gives each key of the
\* dictionary its value, and appends the keys the file did not have after all
\* the old lines, in the dictionary's order; no line is dropped or duplicated.
KeepsStructure(old, new, env) ==
    LET added == SubSeq(new, Len(old) + 1, Len(new))
        fresh(k) == k \notin existing_keys(old)
    IN /\ Len(new) >= Len(old)
       /\ \A i \in 1..Len(old) :
             /\ IsCommentOrBlank(old[i]) => new[i] = old[i]
             /\ IsKeyLine(old[i]) =>
                   /\ IsKeyLine(new[i])
                   /\ LineKey(new[i]) = LineKey(old[i])
                   /\ LineValue(new[i]) = DictGet(env, LineKey(old[i]), LineValue(old[i]))
       /\ \A i \in 1..Len(added) : IsKeyLine(added[i]) /\ fresh(LineKey(added[i]))
       /\ [i \in 1..Len(added) |-> <<LineKey(added[i]), LineValue(added[i])>>]
             = SelectSeq(env, LAMBDA pair : fresh(pair[1]))

C7_RewriteKeepsStructure ==
    [][\A p \in Operators :
          (req[p].pc = "write_env" /\ req'[p].pc = "done")
          => KeepsStructure(file, file', req[p].env)]_vars

C7_Witness ==
    /\ \E p \in Operators : req[p].pc = "done" /\ req[p].op = "saveMods"
    /\ file = <<C, KV(K_S, <<"a">>), <<>>, KV(<<"OTHER">>, <<"x">>),
                KV(K_W, <<"b", SEMI, "a">>), KV(K_M, <<"n", SEMI, "m">>)>>

\* C8: the write of the .env file that a mod-list mutation makes leaves
\* SERVER_NAME as it was.
C8_ModWriteKeepsServerName ==
    [][\A p \in Operators :
          (req[p].op \in ModOps /\ req[p].pc = "write_env" /\ req'[p].pc = "done")
          => get_current_world(file') = get_current_world(file)]_vars

\* C9: an addMod that reads the store right after an addMod with the same
\* arguments wrote it leaves both stored sequences as it read them, and answers
\* success.
C9_AddModIdempotent ==
    [][\A p \in Operators :
          (req[p].op = "addMod" /\ req[p].again /\ ~req[p].stale)
          => /\ (req[p].pc = "commit" /\ req'[p].pc = "read_env")
                => (ParseList(store'[K_W]) = req[p].rd.w /\ ParseList(store'[K_M]) = req[p].rd.m)
             /\ (req[p].pc = "write_env" /\ req'[p].pc = "done") => req'[p].res.ok]_vars

ModKeys == {K_W, K_M}

\* the field of a handler's lists that holds the key
Field(k) == IF k = K_W THEN "w" ELSE "m"

FileHas(f, k) == DictHas(read_env_file(f), k)

\* C11: a getMods that found neither key in the store and reads a .env file that
\* has key k goes on to copy the file's value of k into the store, and answers
\* with it; the copy is made into a store that does not have the key yet (one
\* time); a getMods that finds k in the store answers with the store's value,
\* whatever the file holds, and leaves the store as it is.
C11_MigrationPerKeyOnce ==
    [][\A p \in Operators : \A k \in ModKeys :
          (req[p].op = "getMods" /\ req'[p].pc # req[p].pc)
          => /\ (req[p].pc = "mig_read" /\ FileHas(file, k))
                   => (req'[p].pc = "mig_write" /\ req'[p].env[Field(k)] = FileText(file, k))
             /\ req[p].pc = "mig_write"
                   => /\ ~StoreHas(k)
                      /\ store'[k] = req[p].env[Field(k)]
                      /\ req'[p].pc = "done"
                      /\ req'[p].rd[Field(k)] = ParseList(req[p].env[Field(k)])
             /\ (req[p].pc = "select" /\ StoreHas(k))
                   => /\ req'[p].pc = "done"
                      /\ req'[p].rd[Field(k)] = ParseList(store[k])
                      /\ store' = store]_vars

(***************************************************************************)
(* The world manager                                                       *)
(***************************************************************************)
WorldOps == {"switchWorld", "createWorld", "backupWorld", "restoreBackup"}

\* datetime.now().strftime('%d-%m-%y_%H-%M-%S'): the second a backup is taken in
Timestamps == {"T1", "T2"}

Backup1 == <<"a", "_", "T1">>

RestoreBodies == {[backup |-> <<>>, target |-> <<"b">>],
                  [backup |-> Backup1, target |-> <<>>],
                  [backup |-> Backup1, target |-> <<"a", "!">>],
                  [backup |-> Backup1, target |-> <<"a">>],
                  [backup |-> Backup1, target |-> <<"b", SP>>],
                  [backup |-> <<"b">>, target |-> <<"a">>]}

\* api_create_world up to read_env_file
BeginCreateWorld(p) ==
    /\ \E n \in WorldNames :
          LET world_name == strip(n)
              r == [Idle EXCEPT !.op = "createWorld", !.arg = [name |-> world_name],
                                !.again = world_name \in created]
          IN Start(p, IF world_name = <<>> THEN Fail(r, "Required")
                      ELSE IF ~ValidName(world_name) THEN Fail(r, "InvalidName")
                      ELSE IF world_name \in all_names(dirs) THEN Fail(r, "AlreadyExists")
                      ELSE [r EXCEPT !.pc = "read_env"])
    /\ UNCHANGED <<store, file, dirs, lastWrite, created, calls>>

\* api_backup up to os.path.exists
BeginBackupWorld(p) ==
    /\ \E t \in Timestamps :
          LET current_world == get_current_world(file)
              backup_name == current_world \o <<"_", t>>
          IN Start(p, [Idle EXCEPT !.pc = "check_source", !.op = "backupWorld",
                                   !.cur = [src |-> current_world, dst |-> backup_name]])
    /\ UNCHANGED <<store, file, dirs, lastWrite, created, calls>>

\* api_backup: os.path.exists(source_path)
CheckSource(p) ==
    /\ req[p].pc = "check_source"
    /\ req' = [req EXCEPT ![p] =
            IF req[p].cur.src \notin DOMAIN dirs THEN Fail(req[p], "SourceNotFound")
            ELSE [req[p] EXCEPT !.pc = "copy"]]
    /\ UNCHANGED <<store, file, dirs, nreq, lastWrite, created, calls>>

\* api_restore_backup up to os.path.exists
BeginRestoreBackup(p) ==
    /\ \E data \in RestoreBodies :
          LET backup_name == strip(data.backup)
              target_name == strip(data.target)
              r == [Idle EXCEPT !.op = "restoreBackup",
                                !.arg = [backup |-> backup_name, name |-> target_name],
                                !.cur = [src |-> backup_name, dst |-> target_name]]
          IN Start(p, IF backup_name = <<>> THEN Fail(r, "Required")
                      ELSE IF target_name = <<>> THEN Fail(r, "Required")
                      ELSE IF ~ValidName(target_name) THEN Fail(r, "InvalidName")
                      ELSE [r EXCEPT !.pc = "check_backup"])
    /\ UNCHANGED <<store, file, dirs, lastWrite, created, calls>>

\* api_restore_backup: os.path.exists(backup_path)
CheckBackup(p) ==
    /\ req[p].pc = "check_backup"
    /\ req' = [req EXCEPT ![p] =
            IF req[p].cur.src \notin DOMAIN dirs THEN Fail(req[p], "BackupNotFound")
            ELSE [req[p] EXCEPT !.pc = "check_target"]]
    /\ UNCHANGED <<store, file, dirs, nreq, lastWrite, created, calls>>

\* as CheckTarget, without the check
CheckTargetMissing(p) ==
    /\ req[p].pc = "check_target"
    /\ req' = [req EXCEPT ![p] = [req[p] EXCEPT !.pc = "copy"]]
    /\ UNCHANGED <<store, file, dirs, nreq, lastWrite, created, calls>>

\* api_restore_backup: os.path.exists(target_path)
CheckTarget(p) ==
    /\ req[p].pc = "check_target"
    /\ req' = [req EXCEPT ![p] =
            IF req[p].cur.dst \in DOMAIN dirs THEN Fail(req[p], "TargetExists")
            ELSE [req[p] EXCEPT !.pc = "copy"]]
    /\ UNCHANGED <<store, file, dirs, nreq, lastWrite, created, calls>>

\* shutil.copytree begins: it makes the destination directory, and raises if
\* there is one
CopyStart(p) ==
    /\ req[p].pc = "copy"
    /\ IF req[p].cur.dst \in DOMAIN dirs
       THEN /\ req' = [req EXCEPT ![p] = Fail(req[p], "IOError")]
            /\ dirs' = dirs
       ELSE /\ req' = [req EXCEPT ![p] = [req[p] EXCEPT !.pc = "copying"]]
            /\ dirs' = dirs @@ (req[p].cur.dst :> "partial")
    /\ UNCHANGED <<store, file, nreq, lastWrite, created, calls>>

\* shutil.copytree returns: the destination holds what the source holds;
\* api_backup answers, api_restore_backup goes on to read_env_file
CopyFinish(p) ==
    /\ req[p].pc = "copying"
    /\ dirs' = [dirs EXCEPT ![req[p].cur.dst] = dirs[req[p].cur.src]]
    /\ req' = [req EXCEPT ![p] =
            IF req[p].op = "backupWorld" THEN Ok(req[p])
            ELSE [req[p] EXCEPT !.pc = "read_env"]]
    /\ UNCHANGED <<store, file, nreq, lastWrite, created, calls>>

\* shutil.copytree raises part way (disk full, permissions)
CopyFail(p) ==
    /\ req[p].pc = "copying"
    /\ req' = [req EXCEPT ![p] = Fail(req[p], "IOError")]
    /\ UNCHANGED <<store, file, dirs, nreq, lastWrite, created, calls>>

\* the game server starts: it makes the directory of the world SERVER_NAME names
ServerStart ==
    /\ get_current_world(file) \notin DOMAIN dirs
    /\ dirs' = dirs @@ (get_current_world(file) :> "new")
    /\ UNCHANGED <<store, file, req, nreq, lastWrite, created, calls>>

\* the game server saves the world it runs
ServerSave ==
    /\ get_current_world(file) \in DOMAIN dirs
    /\ dirs[get_current_world(file)] = "new"
    /\ dirs' = [dirs EXCEPT ![get_current_world(file)] = "played"]
    /\ UNCHANGED <<store, file, req, nreq, lastWrite, created, calls>>

Dirs1 == (<<"a">> :> "played") @@ (Backup1 :> "new")

InitWorlds == {<<File1, NoDirs>>, <<File1, Dirs1>>, <<File3, Dirs1>>}

InitWorld ==
    /\ \E c \in InitWorlds : file = c[1] /\ dirs = c[2]
    /\ store = NoStore
    /\ req = [p \in Operators |-> Idle]
    /\ nreq = 0
    /\ lastWrite = NoWrite
    /\ created = {}
    /\ calls = NoCalls

NextWorld ==
    \/ \E p \in Operators :
        \/ BeginSwitchWorld(p)
        \/ BeginCreateWorld(p)
        \/ BeginBackupWorld(p)
        \/ BeginRestoreBackup(p)
        \/ CheckSource(p)
        \/ CheckBackup(p)
        \/ CheckTarget(p)
        \/ CopyStart(p)
        \/ CopyFinish(p)
        \/ CopyFail(p)
        \/ ReadEnv(p)
        \/ WriteEnv(p)
    \/ ServerStart
    \/ ServerSave

SpecWorld == InitWorld /\ [][NextWorld]_vars

(***************************************************************************)
(* Properties of the world manager                                         *)
(***************************************************************************)
\* operator p took the step (a request that fails at once as the operator's last
\* one did leaves the same record, and counts as no step)
Stepped(p) == req'[p] # req[p]

\* the step began a request of operator p
Began(p) == nreq' = nreq + 1 /\ Stepped(p)

\* C5 as claimed: a createWorld(x) that follows a createWorld(x) that succeeded
\* fails with AlreadyExists.
C5_SecondCreateFails ==
    \A p \in Operators :
        (req[p].op = "createWorld" /\ req[p].again /\ req[p].pc = "done")
        => (~req[p].res.ok /\ req[p].res.why = "AlreadyExists")

\* C5 as amended: a createWorld(x) that follows a createWorld(x) that succeeded
\* fails with AlreadyExists exactly when a directory named x exists by then (the
\* server was started on x, or a restore made it); with no such directory it goes
\* on to set SERVER_NAME again, and succeeds.
C5_SecondCreateFailsIfDirectory ==
    [][\A p \in Operators :
          (req'[p].op = "createWorld" /\ req'[p].again)
          => /\ Began(p) =>
                   /\ (req'[p].arg.name \in DOMAIN dirs)
                         => (req'[p].pc = "done" /\ req'[p].res.why = "AlreadyExists")
                   /\ (req'[p].arg.name \notin DOMAIN dirs) => req'[p].pc = "read_env"
             /\ (Stepped(p) /\ req[p].pc = "write_env")
                   => (req'[p].res.ok /\ get_current_world(file') = req[p].arg.name)]_vars

C5_Witness ==
    \E p \in Operators :
        /\ req[p].op = "createWorld" /\ req[p].again /\ req[p].pc = "done"
        /\ req[p].res.why = "AlreadyExists"
        /\ req[p].arg.name \in DOMAIN dirs

\* C6: a world operation that fails a precondition answers failure and leaves the
\* .env file and the saves directory as they were, and no step of a world
\* operation up to and including its checks changes either.
PreconditionFails(p) ==
    \/ /\ Began(p)
       /\ req'[p].op \in {"switchWorld", "createWorld", "restoreBackup"}
       /\ ~ValidName(req'[p].arg.name)
    \/ /\ Began(p)
       /\ req'[p].op = "createWorld"
       /\ req'[p].arg.name \in DOMAIN dirs
    \/ req[p].pc = "check_source" /\ req[p].cur.src \notin DOMAIN dirs
    \/ req[p].pc = "check_backup" /\ req[p].cur.src \notin DOMAIN dirs
    \/ req[p].pc = "check_target" /\ req[p].cur.dst \in DOMAIN dirs

RestoreStep(p) == req[p].op = "restoreBackup" /\ req'[p].op = "restoreBackup" /\ Stepped(p) /\ ~Began(p)

\* C12: restoreBackup copies first and switches second.  The only step of a
\* restoreBackup that changes the .env file is its last one, taken when the copy
\* has returned; the copy leaves in the target directory what the backup
\* directory holds; the step that answers success leaves SERVER_NAME naming the
\* target, and the target directory holding what the backup directory holds
\* (compared when SERVER_NAME named neither before the step: the game server
\* writes into the directory SERVER_NAME names); no step of the request changes
\* the backup directory; and the step at which the copy fails leaves the .env
\* file as it is.
C12_CopyThenSwitch ==
    [][\A p \in Operators :
          RestoreStep(p)
          => /\ file' # file
                   => /\ req[p].pc = "write_env"
                      /\ req[p].cur.dst \in DOMAIN dirs
             /\ (req[p].pc = "copying" /\ req'[p].pc = "read_env")
                   => dirs'[req[p].cur.dst] = dirs[req[p].cur.src]
             /\ (req'[p].pc = "done" /\ req'[p].res.ok)
                   => /\ req[p].cur.src \in DOMAIN dirs' /\ req[p].cur.dst \in DOMAIN dirs'
                      /\ get_current_world(file') = req[p].arg.name
                      /\ get_current_world(file) \notin {req[p].cur.src, req[p].cur.dst}
                            => dirs'[req[p].cur.dst] = dirs'[req[p].cur.src]
             /\ req[p].cur.src \in DOMAIN dirs
                   => (req[p].cur.src \in DOMAIN dirs' /\ dirs'[req[p].cur.src] = dirs[req[p].cur.src])
             /\ (req[p].pc \in {"copy", "copying"} /\ req'[p].pc = "done")
                   => (~req'[p].res.ok /\ file' = file)]_vars

(***************************************************************************)
(* The process controller                                                  *)
(***************************************************************************)
\* subprocess.run(..., timeout=30) in run_docker_command, in seconds
Timeout == 30

Apis == {"status", "logs", "start", "stop", "restart"}

\* the command an endpoint runs first
first_cmd(api) ==
    CASE api = "status" -> "ps"
      [] api = "logs" -> "logs"
      [] api = "start" -> "up"
      [] api = "stop" -> "down"
      [] api = "restart" -> "restart"

\* the commands run through run_docker_command, which passes timeout=30
HasTimeout(cmd) == cmd \in {"up", "down", "restart"}

Waiting(p) == calls[p].pc = "running"

\* a client calls an endpoint and the handler starts its first command; a command
\* that cannot be started raises, which run_docker_command alone catches
BeginCall(p) ==
    /\ ~Waiting(p)
    /\ \E api \in Apis, started \in BOOLEAN :
          calls' = [calls EXCEPT ![p] =
              IF started
              THEN [pc |-> "running", api |-> api, cmd |-> first_cmd(api), t |-> 0, res |-> "none"]
              ELSE [pc |-> "done", api |-> api, cmd |-> first_cmd(api), t |-> 0,
                    res |-> IF HasTimeout(first_cmd(api)) THEN "failed" ELSE "unhandled"]]
    /\ UNCHANGED <<store, file, dirs, req, nreq, lastWrite, created>>

\* the command exits; api_status runs docker stats after a docker ps that says Up
Exit(p) ==
    /\ Waiting(p)
    /\ \E rc_ok \in BOOLEAN, up \in BOOLEAN :
          calls' = [calls EXCEPT ![p] =
              IF calls[p].cmd = "ps" /\ up
              THEN [calls[p] EXCEPT !.cmd = "stats", !.t = 0]
              ELSE [calls[p] EXCEPT !.pc = "done",
                                    !.res = IF HasTimeout(calls[p].cmd) /\ ~rc_ok
                                            THEN "failed" ELSE "ok"]]
    /\ UNCHANGED <<store, file, dirs, req, nreq, lastWrite, created>>

\* subprocess.TimeoutExpired: the command is killed and the handler answers
Expire(p) ==
    /\ Waiting(p)
    /\ HasTimeout(calls[p].cmd)
    /\ calls[p].t = Timeout
    /\ calls' = [calls EXCEPT ![p] = [calls[p] EXCEPT !.pc = "done", !.res = "timeout"]]
    /\ UNCHANGED <<store, file, dirs, req, nreq, lastWrite, created>>

\* a second passes; a command with a timeout does not outlive it
Tick ==
    /\ \E p \in Operators : Waiting(p) /\ calls[p].t <= Timeout
    /\ \A p \in Operators : (Waiting(p) /\ HasTimeout(calls[p].cmd)) => calls[p].t < Timeout
    /\ calls' = [p \in Operators |->
                    IF Waiting(p) /\ calls[p].t <= Timeout
                    THEN [calls[p] EXCEPT !.t = @ + 1] ELSE calls[p]]
    /\ UNCHANGED <<store, file, dirs, req, nreq, lastWrite, created>>

InitController ==
    /\ store = NoStore
    /\ file = File1
    /\ dirs = NoDirs
    /\ req = [p \in Operators |-> Idle]
    /\ nreq = 0
    /\ lastWrite = NoWrite
    /\ created = {}
    /\ calls = NoCalls

NextController ==
    \/ \E p \in Operators :
        \/ BeginCall(p)
        \/ Exit(p)
        \/ Expire(p)
    \/ Tick

SpecController == InitController /\ [][NextController]_vars

\* C10: no call of the container engine is still waiting for its command after
\* the timeout: by then the operation has returned.
C10_EveryCallTimesOut ==
    \A p \in Operators : Waiting(p) => calls[p].t <= Timeout

====
